---- MODULE Spec2Model ----
(***************************************************************************)
(* Model of cmd/xc/interactive.go: the interactive task picker (a          *)
(* bubbletea model wrapping a bubbles list), the controller that runs the  *)
(* chosen task, and the shell-history synchronizer.                        *)
(*                                                                         *)
(* Strings are sequences of one-character strings, so that substring       *)
(* tests, concatenation and formatting are computed, not assumed.          *)
(***************************************************************************)
EXTENDS Integers, Sequences, FiniteSets, TLC

(***************************************************************************)
(* Bounds of the model.                                                    *)
(***************************************************************************)
MaxCalls == 2           \* calls of addToShellHistory against the same home directory
MaxPartial == 1         \* characters a failing write can leave in the file
MaxFilterLen == 3       \* characters typed into the list's filter input
MaxInFlight == 1        \* filter results computed but not yet delivered
MaxWidth == 1           \* distinct terminal widths a resize can report

(***************************************************************************)
(* Program constants.                                                      *)
(***************************************************************************)
listItemWidth == 20     \* the width handed to list.New

(***************************************************************************)
(* Strings.                                                                *)
(***************************************************************************)
Nil == <<"<nil>">>      \* a nil *models.Task / a nil list.Item

\* strings.Contains(s, sub)
Contains(s, sub) ==
    \E i \in 0..(Len(s) - Len(sub)) : SubSeq(s, i + 1, i + Len(sub)) = sub

\* fmt's %d of a non-negative integer
RECURSIVE Digits(_)
Digits(n) ==
    LET d == <<"0", "1", "2", "3", "4", "5", "6", "7", "8", "9">>
    IN  IF n < 10 THEN <<d[n + 1]>> ELSE Digits(n \div 10) \o <<d[(n % 10) + 1]>>

RECURSIVE Concat(_)
Concat(ss) == IF ss = <<>> THEN <<>> ELSE Head(ss) \o Concat(Tail(ss))

(***************************************************************************)
(* Inputs: the task catalogues handed to interactivePicker, the keys the   *)
(* terminal delivers, the values of SHELL and of the clock.                *)
(***************************************************************************)
TaskLists ==
    { <<>>,
      << <<"a", "b", "a">>, <<"A", "b">>, <<"b">> >> }

CancelKeys == {"ctrl+c", "q", "esc"}
FilterChars == {"a"}
Keys == CancelKeys \cup {"enter", "up", "down", "/", "backspace"} \cup FilterChars

bash == <<"b", "a", "s", "h">>
zsh == <<"z", "s", "h">>

Shells ==
    { <<>>,                                            \* SHELL unset
      <<"/">> \o bash,
      <<"/">> \o zsh,
      <<"/", "f", "i", "s", "h">>,
      <<"/">> \o bash \o <<"/">> \o zsh,              \* a zsh installed under a bash-named directory
      <<"/">> \o zsh \o <<"/">> \o bash }

Times == {7, 12}

InitialHistory ==
    { [bash |-> <<>>, zsh |-> <<"l", "\n">>],
      [bash |-> <<"l", "\n">>, zsh |-> <<>>] }

Widths == {listItemWidth + i : i \in 1..MaxWidth}

(***************************************************************************)
(* State.                                                                  *)
(***************************************************************************)
VARIABLES
    tasks,          \* the []models.Task handed to interactivePicker (names)
    shell,          \* os.Getenv("SHELL") of the running process
    calls,          \* calls of addToShellHistory begun so far
    pc,             \* the position of interactivePicker
    list,           \* model.list: the bubbles list.Model
    choice,         \* model.choice (Nil, or the chosen task's name)
    quitting,       \* model.quitting
    quitMsg,        \* a tea.QuitMsg is in flight (a tea.Quit command was returned)
    filterMsgs,     \* list.FilterMatchesMsg in flight: [filter term -> how many]
    runErr,         \* err of runner.Run, held across fmt.Println
    hist,           \* the append in progress: [family, line, writeErr]
    handles,        \* history-file handles this process holds open
    bashHistory,    \* content of ~/.bash_history
    zshHistory,     \* content of ~/.zsh_history
    ret,            \* what interactivePicker returned ("none" while it runs)
    log,            \* the external calls of this run, in order
    obs,            \* what the events of this run did (observation only)
    written,        \* per history file: its first content and what each write added
    peer            \* another xc process appending to the same history file

vars == <<tasks, shell, calls, pc, list, choice, quitting, quitMsg, filterMsgs,
          runErr, hist, handles, bashHistory, zshHistory, ret, log, obs, written,
          peer>>

(***************************************************************************)
(* The bubbles list, as interactivePicker configures it (lines 119-126):   *)
(* filtering enabled, quit key bindings disabled.  Its height is           *)
(* listItemHeight + len(tasks), so every item is on the one page and       *)
(* Index() is the cursor.                                                  *)
(***************************************************************************)
FilterTexts == UNION {[1..n -> FilterChars] : n \in 0..MaxFilterLen}

\* list.New(items, itemDelegate{}, listItemWidth, ...)
NewList(ts) ==
    [ items |-> ts, filterState |-> "Unfiltered", filterValue |-> <<>>,
      filteredItems |-> <<>>, cursor |-> 0, width |-> listItemWidth ]

\* taskItem.FilterValue: the task's name
FilterValue(item) == item

\* list.Model.VisibleItems
VisibleItems(l) ==
    IF l.filterState # "Unfiltered"
    THEN [i \in 1..Len(l.filteredItems) |-> l.items[l.filteredItems[i]]]
    ELSE l.items

\* list.Model.SelectedItem: nil when the index is not an index of the visible items
SelectedItem(l) ==
    LET v == VisibleItems(l)
    IN  IF l.cursor < 0 \/ Len(v) = 0 \/ Len(v) <= l.cursor THEN Nil ELSE v[l.cursor + 1]

\* the lower-case form of a letter, by which the list's default filter compares
Fold(c) ==
    CASE c = "A" -> "a"
      [] c = "B" -> "b"
      [] OTHER -> c

\* (mutant) the filter matches a name that contains the term as a substring
MatchesSubstring(term, name) ==
    \E i \in 0..(Len(name) - Len(term)) : SubSeq(name, i + 1, i + Len(term)) = term

\* the list's default filter matches a name when the term's characters occur in
\* it in order, compared without regard to letter case
RECURSIVE Matches(_, _)
Matches(term, name) ==
    IF term = <<>> THEN TRUE
    ELSE IF name = <<>> THEN FALSE
    ELSE IF Fold(Head(term)) = Fold(Head(name)) THEN Matches(Tail(term), Tail(name))
    ELSE Matches(term, Tail(name))

RECURSIVE Orderings(_)
Orderings(S) ==
    IF S = {} THEN { <<>> }
    ELSE UNION { { <<i>> \o o : o \in Orderings(S \ {i}) } : i \in S }

\* the results a filter command can deliver for a term: the matching items, in
\* the filter's rank order (any order here); every item for the empty term
FilterResults(l, term) ==
    IF term = <<>>
    THEN { [i \in 1..Len(l.items) |-> i] }
    ELSE Orderings({i \in 1..Len(l.items) : Matches(term, FilterValue(l.items[i]))})

NoCmd == <<"<no cmd>">>

\* list.Model.CursorUp, on the first page
CursorUp(l) == [l EXCEPT !.cursor = IF l.cursor - 1 < 0 THEN 0 ELSE l.cursor - 1]

\* list.Model.CursorDown, on the last page
CursorDown(l) ==
    LET n == Len(VisibleItems(l))
        c == l.cursor + 1
    IN  [l EXCEPT !.cursor = IF c < n THEN c ELSE IF c > n THEN 0 ELSE n - 1]

\* list.Model.resetFiltering
ResetFiltering(l) ==
    IF l.filterState = "Unfiltered" THEN l
    ELSE [l EXCEPT !.filterState = "Unfiltered", !.filterValue = <<>>,
                   !.filteredItems = <<>>]

\* the end of handleBrowsing: keep the cursor within the items on the page
ClampCursor(l) ==
    LET n == Len(VisibleItems(l))
    IN  IF l.cursor > n - 1 THEN [l EXCEPT !.cursor = IF n - 1 < 0 THEN 0 ELSE n - 1]
        ELSE l

\* list.Model.handleBrowsing for a key: the bindings are enabled only while the
\* list has items
HandleBrowsing(l, key) ==
    LET hasItems == Len(l.items) # 0
        moved ==
            IF key = "up" /\ hasItems THEN CursorUp(l)
            ELSE IF key = "down" /\ hasItems THEN CursorDown(l)
            ELSE IF key = "/" /\ hasItems
                 THEN [l EXCEPT !.filteredItems =
                                    IF l.filterValue = <<>>
                                    THEN [i \in 1..Len(l.items) |-> i]
                                    ELSE l.filteredItems,
                                !.cursor = 0,
                                !.filterState = "Filtering"]
            ELSE l
    IN  [list |-> ClampCursor(moved), cmd |-> NoCmd]

\* textinput.Model.Update of the filter input, which takes keys only while focused
FilterInputUpdate(value, key) ==
    IF key \in FilterChars THEN Append(value, key)
    ELSE IF key = "backspace" /\ value # <<>> THEN SubSeq(value, 1, Len(value) - 1)
    ELSE value

\* list.Model.handleFiltering for a key.  "up" and "down" accept the filter (so
\* does "enter", which model.Update never forwards), once the filter input is
\* not empty; "esc" would cancel it and is never forwarded either.
HandleFiltering(l, key) ==
    LET accept == key \in {"up", "down"} /\ l.filterValue # <<>> /\ Len(l.items) # 0
        accepted ==
            IF ~accept THEN l
            ELSE IF Len(VisibleItems(l)) = 0 THEN ResetFiltering(l)
            ELSE [l EXCEPT !.filterState = "FilterApplied"]
        value == IF accept THEN accepted.filterValue
                 ELSE FilterInputUpdate(l.filterValue, key)
        changed == value # accepted.filterValue
    IN  [list |-> [accepted EXCEPT !.filterValue = value],
         cmd |-> IF changed THEN value ELSE NoCmd]

\* list.Model.Update for a key message
ListUpdateKey(l, key) ==
    IF l.filterState = "Filtering" THEN HandleFiltering(l, key)
    ELSE HandleBrowsing(l, key)

\* list.Model.Update for a FilterMatchesMsg: the matches replace filteredItems
ListUpdateMatches(l, matches) == [l EXCEPT !.filteredItems = matches]

\* (mutant) a resize puts the cursor back on the first item
SetWidthResettingCursor(l, w) == [l EXCEPT !.width = w, !.cursor = 0]

\* list.Model.SetWidth
SetWidth(l, w) == [l EXCEPT !.width = w]

(***************************************************************************)
(* model.Update (lines 80-105).  A model is [list, choice, quitting]; the  *)
(* result is the new model, whether tea.Quit was returned, and the filter  *)
(* command the list returned (its term), if any.                           *)
(***************************************************************************)
UpdateWindowSize(m, w) ==
    [m |-> [m EXCEPT !.list = SetWidth(m.list, w)], quit |-> FALSE, cmd |-> NoCmd]

UpdateCancel(m) ==
    [m |-> [m EXCEPT !.quitting = TRUE], quit |-> TRUE, cmd |-> NoCmd]

\* (mutant) enter returns early, without quitting, when nothing is selected
UpdateEnterNoOp(m) ==
    LET i == SelectedItem(m.list)
    IN  IF i = Nil THEN [m |-> m, quit |-> FALSE, cmd |-> NoCmd]
        ELSE [m |-> [m EXCEPT !.choice = i, !.quitting = TRUE],
              quit |-> TRUE, cmd |-> NoCmd]

UpdateEnter(m) ==
    LET i == SelectedItem(m.list)
        ok == i # Nil
    IN  [m |-> [m EXCEPT !.choice = IF ok THEN i ELSE m.choice, !.quitting = TRUE],
         quit |-> TRUE, cmd |-> NoCmd]

UpdateKey(m, key) ==
    IF key \in CancelKeys THEN UpdateCancel(m)
    ELSE IF key = "enter" THEN UpdateEnter(m)
    ELSE LET r == ListUpdateKey(m.list, key)
         IN  [m |-> [m EXCEPT !.list = r.list], quit |-> FALSE, cmd |-> r.cmd]

UpdateMatches(m, matches) ==
    [m |-> [m EXCEPT !.list = ListUpdateMatches(m.list, matches)],
     quit |-> FALSE, cmd |-> NoCmd]

(***************************************************************************)
(* The history synchronizer's pure parts (lines 161-187).                  *)
(***************************************************************************)
\* (mutant) the zsh test comes first
ShellFamilyZshFirst(sh) ==
    IF Contains(sh, zsh) THEN "zsh"
    ELSE IF Contains(sh, bash) THEN "bash"
    ELSE "none"

\* (mutant) a SHELL that names no known shell is taken for bash
ShellFamilyDefaultBash(sh) ==
    IF Contains(sh, zsh) /\ ~Contains(sh, bash) THEN "zsh" ELSE "bash"

\* the branch addToShellHistory takes for a value of SHELL
ShellFamily(sh) ==
    IF Contains(sh, bash) THEN "bash"
    ELSE IF Contains(sh, zsh) THEN "zsh"
    ELSE "none"

\* (mutant) the error of user.Current() is not checked
HistoryBranchIgnoringLookup(userOk, sh) ==
    IF ShellFamily(sh) = "none"
    THEN [family |-> "none", pc |-> "done", ret |-> "nil"]
    ELSE [family |-> ShellFamily(sh), pc |-> "OpenFile", ret |-> "none"]

\* addToShellHistory: the error of user.Current() is returned before SHELL is
\* read; without one, the branch for SHELL is taken, or nil is returned when
\* SHELL names neither shell (lines 155-169)
HistoryBranch(userOk, sh) ==
    IF ~userOk THEN [family |-> "none", pc |-> "done", ret |-> "user error"]
    ELSE IF ShellFamily(sh) = "none"
    THEN [family |-> "none", pc |-> "done", ret |-> "nil"]
    ELSE [family |-> ShellFamily(sh), pc |-> "OpenFile", ret |-> "none"]

\* appendToBashHistory: command + "\n"
BashLine(command) == command \o <<"\n">>

\* (mutant) the line lacks the ":0" duration field
ZshLineNoDuration(timestamp, command) ==
    <<":", " ">> \o Digits(timestamp) \o <<";">> \o command \o <<"\n">>

\* appendToZshHistory: fmt.Sprintf(": %d:0;%s\n", timestamp, command)
ZshLine(timestamp, command) ==
    <<":", " ">> \o Digits(timestamp) \o <<":", "0", ";">> \o command \o <<"\n">>

\* interactivePicker's argument to addToShellHistory: "xc " + task.Name
HistoryCommand(name) == <<"x", "c", " ">> \o name

\* (mutant) a line the file already ends with is not written again
AppendToDeduplicating(content, data) ==
    IF data # <<>> /\ Len(data) <= Len(content)
       /\ SubSeq(content, Len(content) - Len(data) + 1, Len(content)) = data
    THEN content ELSE content \o data

\* (mutant) the file is opened without O_APPEND: the write goes to offset 0 of
\* the new handle, over what is there
AppendToAtStart(content, data) ==
    IF Len(data) >= Len(content) THEN data
    ELSE data \o SubSeq(content, Len(data) + 1, Len(content))

\* a write to a file opened with O_APPEND|O_WRONLY|O_CREATE
AppendTo(content, data) == content \o data

\* what a failing WriteString can leave behind: a proper prefix of the data
Fragments(data) ==
    {SubSeq(data, 1, n) : n \in {k \in 0..MaxPartial : k < Len(data)}}

\* (mutant) the error of the refresh step is dropped
RefreshReturnSwallowed(ok) == "nil"

\* the return of callRefreshScript for the outcome of cmd.Run() (lines 207-211)
RefreshReturn(ok) == IF ok THEN "nil" ELSE "refresh error"

\* (mutant) Run's error is not checked before history synchronization
AfterRunIgnoringError(err) == [pc |-> "addToShellHistory", ret |-> "none"]

\* the argument of fmt.Println at line 142: "Task name: " + task.Name
TaskNameLine(name) ==
    <<"T", "a", "s", "k", " ", "n", "a", "m", "e", ":", " ">> \o name

\* (mutant) the line is printed after the check of Run's error, for a task
\* that ran without one only
PrintedOnSuccess(name, err) ==
    IF err THEN <<>> ELSE << <<"Println", TaskNameLine(name), TRUE>> >>

\* what line 142 adds to the calls of the run: the print stands between
\* runner.Run and the check of its error, so it is made for either outcome
Printed(name, err) == << <<"Println", TaskNameLine(name), TRUE>> >>

\* (mutant) a task that failed is run again
AfterRunRetrying(err) ==
    IF err THEN [pc |-> "Run", ret |-> "none"]
    ELSE [pc |-> "addToShellHistory", ret |-> "none"]

\* interactivePicker after fmt.Println: return Run's error, or go on to
\* addToShellHistory (lines 143-146)
AfterRun(err) ==
    IF err THEN [pc |-> "done", ret |-> "run error"]
    ELSE [pc |-> "addToShellHistory", ret |-> "none"]

\* (mutant) the file is closed after the check of the write's error, not by a
\* deferred call
HandlesAfterCloseOnSuccess(h, writeErr) == IF writeErr THEN h ELSE h - 1

\* the handles held once appendToHistoryFile has returned: the deferred
\* file.Close() runs on the return after a failed write and on the return
\* after a successful one (lines 195-200)
HandlesAfterClose(h, writeErr) == h - 1

\* (mutant) appendToZshHistory does not check the error of the append
AfterAppendIgnoringError(family, writeErr) ==
    IF family = "zsh" THEN [pc |-> "callRefreshScript", ret |-> "none"]
    ELSE IF writeErr THEN [pc |-> "done", ret |-> "write error"]
    ELSE [pc |-> "done", ret |-> "nil"]

\* what follows the return of appendToHistoryFile: its error is returned by
\* both branches; without one the bash branch returns nil and the zsh branch
\* goes on to callRefreshScript (lines 174, 182-186)
AfterAppend(family, writeErr) ==
    IF writeErr THEN [pc |-> "done", ret |-> "write error"]
    ELSE IF family = "zsh" THEN [pc |-> "callRefreshScript", ret |-> "none"]
    ELSE [pc |-> "done", ret |-> "nil"]

\* the frame of addToShellHistory: the branch taken, its argument, the clock
\* value and the line of the zsh branch, the error of the write, and the two
\* files as the call found them
NoHist == [family |-> "none", command |-> <<>>, time |-> 0, line |-> <<>>,
           writeErr |-> FALSE, before |-> [bash |-> <<>>, zsh |-> <<>>]]

(***************************************************************************)
(* Initial state: interactivePicker is called and the terminal session     *)
(* (tea.NewProgram(m).Run()) starts with model{list: l}.                   *)
(***************************************************************************)
NoObs == [first |-> "none", commit |-> Nil, late |-> FALSE]

\* no other process is appending
NoPeer == [pc |-> "none", command |-> <<>>, time |-> 0, line |-> <<>>,
           handles |-> 0, writeErr |-> FALSE, ret |-> "none", overlap |-> FALSE]

Init ==
    /\ tasks \in TaskLists
    /\ shell \in Shells
    /\ calls = 0
    /\ pc = "session"
    /\ list = NewList(tasks)
    /\ choice = Nil
    /\ quitting = FALSE
    /\ quitMsg = FALSE
    /\ filterMsgs = [t \in FilterTexts |-> 0]
    /\ runErr = FALSE
    /\ hist = NoHist
    /\ handles = 0
    /\ \E h \in InitialHistory : bashHistory = h.bash /\ zshHistory = h.zsh
    /\ ret = "none"
    /\ log = <<>>
    /\ obs = NoObs
    /\ written = [init |-> [bash |-> bashHistory, zsh |-> zshHistory],
                  bash |-> <<>>, zsh |-> <<>>]
    /\ peer = NoPeer

Model == [list |-> list, choice |-> choice, quitting |-> quitting]

RECURSIVE SumOver(_, _)
SumOver(f, S) ==
    IF S = {} THEN 0
    ELSE LET x == CHOOSE y \in S : TRUE IN f[x] + SumOver(f, S \ {x})

InFlight == SumOver(filterMsgs, FilterTexts)

\* the item at the highlighted index of the visible items, if there is one
Highlighted(l) ==
    LET v == VisibleItems(l)
    IN  IF l.cursor < Len(v) THEN v[l.cursor + 1] ELSE <<"<no item>">>

\* the program applies what model.Update returned: the new model, a tea.Quit
\* command (its QuitMsg is sent from another goroutine, so more input can be
\* read before it is), a filter command
Apply(r) ==
    /\ list' = r.m.list
    /\ choice' = r.m.choice
    /\ quitting' = r.m.quitting
    /\ quitMsg' = (quitMsg \/ r.quit)
    /\ filterMsgs' = IF r.cmd = NoCmd THEN filterMsgs
                     ELSE [filterMsgs EXCEPT ![r.cmd] = @ + 1]

Controller == <<tasks, shell, calls, pc, runErr, hist, handles, bashHistory,
                zshHistory, ret, log, written, peer>>

\* the event loop reads a key press and calls model.Update
KeyMsg(key) ==
    /\ pc = "session"
    /\ key \in FilterChars /\ list.filterState = "Filtering"
            => Len(list.filterValue) < MaxFilterLen
    /\ key = "/" => list.filterState # "Filtering"
    /\ LET r == UpdateKey(Model, key)
       IN  /\ r.cmd # NoCmd => InFlight < MaxInFlight
           /\ Apply(r)
    /\ obs' = [first |-> IF obs.first # "none" THEN obs.first
                         ELSE IF key \in CancelKeys THEN "cancel"
                         ELSE IF key = "enter" THEN "enter"
                         ELSE "none",
               commit |-> IF obs.first = "none" /\ key = "enter"
                             /\ VisibleItems(list) # <<>>
                          THEN Highlighted(list) ELSE obs.commit,
               late |-> obs.late \/ quitting]
    /\ UNCHANGED Controller

\* the event loop reads a resize and calls model.Update
WindowSizeMsg(w) ==
    /\ pc = "session"
    /\ Apply(UpdateWindowSize(Model, w))
    /\ obs' = [obs EXCEPT !.late = obs.late \/ quitting]
    /\ UNCHANGED Controller

\* a filter command's result arrives and model.Update hands it to the list
FilterMatchesMsg(term, matches) ==
    /\ pc = "session"
    /\ filterMsgs[term] > 0
    /\ matches \in FilterResults(list, term)
    /\ LET r == UpdateMatches(Model, matches)
       IN  /\ list' = r.m.list
           /\ choice' = r.m.choice
           /\ quitting' = r.m.quitting
    /\ filterMsgs' = [filterMsgs EXCEPT ![term] = @ - 1]
    /\ obs' = [obs EXCEPT !.late = obs.late \/ quitting]
    /\ UNCHANGED <<quitMsg>>
    /\ UNCHANGED Controller

Session == <<list, choice, quitting, quitMsg, filterMsgs, obs>>

Return(r) == pc' = "done" /\ ret' = r

\* an external call: what was called, its argument, whether it succeeded
Call(op, arg, ok) == log' = Append(log, <<op, arg, ok>>)

\* the program has ended: of the model it returns interactivePicker reads the
\* choice only (line 133), and messages still in flight are dropped
EndOfSession ==
    /\ list' = NewList(tasks)
    /\ filterMsgs' = [t \in FilterTexts |-> 0]
    /\ quitMsg' = FALSE
    /\ UNCHANGED <<choice, quitting, obs, peer>>

\* the QuitMsg reaches the event loop: Run returns the model as it then is, and
\* interactivePicker returns nil when no task was chosen (lines 129-136)
QuitMsg ==
    /\ pc = "session"
    /\ quitMsg
    /\ IF choice = Nil THEN Return("nil")
       ELSE pc' = "NewRunner" /\ ret' = ret
    /\ EndOfSession
    /\ UNCHANGED <<tasks, shell, calls, runErr, hist, handles, bashHistory,
                   zshHistory, log, written>>

\* the terminal session fails: Run returns an error (lines 129-132)
SessionError ==
    /\ pc = "session"
    /\ Return("session error")
    /\ EndOfSession
    /\ UNCHANGED <<tasks, shell, calls, runErr, hist, handles, bashHistory,
                   zshHistory, log, written>>

\* run.NewRunner(tasks, dir) (lines 137-140)
NewRunner(ok) ==
    /\ pc = "NewRunner"
    /\ Call("NewRunner", <<>>, ok)
    /\ IF ok THEN pc' = "Run" /\ ret' = ret ELSE Return("parse error")
    /\ UNCHANGED <<tasks, shell, calls, runErr, hist, handles, bashHistory,
                   zshHistory, written>>
    /\ UNCHANGED <<Session, peer>>

\* runner.Run(ctx, task.Name, nil) (line 141)
RunnerRun(ok) ==
    /\ pc = "Run"
    /\ Call("Run", choice, ok)
    /\ runErr' = ~ok
    /\ pc' = "Println"
    /\ UNCHANGED <<tasks, shell, calls, hist, handles, bashHistory, zshHistory,
                   ret, written>>
    /\ UNCHANGED <<Session, peer>>

\* fmt.Println("Task name: " + task.Name), then the check of Run's error
\* (lines 142-145)
Println ==
    /\ pc = "Println"
    /\ log' = log \o Printed(choice, runErr)
    /\ pc' = AfterRun(runErr).pc
    /\ ret' = AfterRun(runErr).ret
    /\ UNCHANGED <<tasks, shell, calls, runErr, hist, handles, bashHistory,
                   zshHistory, written>>
    /\ UNCHANGED <<Session, peer>>

\* addToShellHistory("xc " + task.Name) up to the opening of the history file:
\* user.Current(), the branch on SHELL, the line to append (lines 146, 154-182)
AddToShellHistory(userOk, now) ==
    /\ pc = "addToShellHistory"
    /\ LET command == HistoryCommand(choice)
           branch == HistoryBranch(userOk, shell)
           family == branch.family
       IN  /\ log' = log \o << <<"addToShellHistory", command, TRUE>>,
                               <<"user.Current", <<>>, userOk>> >>
           /\ calls' = calls + 1
           /\ hist' = [family |-> family, command |-> command,
                       time |-> IF family = "zsh" THEN now ELSE 0,
                       line |-> IF family = "bash" THEN BashLine(command)
                                ELSE IF family = "zsh" THEN ZshLine(now, command)
                                ELSE <<>>,
                       writeErr |-> FALSE,
                       before |-> [bash |-> bashHistory, zsh |-> zshHistory]]
           /\ pc' = branch.pc
           /\ ret' = branch.ret
    /\ UNCHANGED <<tasks, shell, runErr, handles, bashHistory, zshHistory,
                   written>>
    /\ UNCHANGED <<Session, peer>>

\* os.OpenFile(historyFile, O_APPEND|O_WRONLY|O_CREATE, 0666) (lines 191-194)
OpenFile(ok) ==
    /\ pc = "OpenFile"
    /\ Call("OpenFile", hist.family, ok)
    /\ IF ok THEN pc' = "WriteString" /\ ret' = ret /\ handles' = handles + 1
       ELSE Return("open error") /\ handles' = handles
    /\ UNCHANGED <<tasks, shell, calls, runErr, hist, bashHistory, zshHistory,
                   written>>
    /\ UNCHANGED <<Session, peer>>

\* file.WriteString(command) (line 197): data is what reached the file
WriteString(ok, data) ==
    /\ pc = "WriteString"
    /\ IF ok THEN data = hist.line ELSE data \in Fragments(hist.line)
    /\ Call("WriteString", hist.line, ok)
    /\ IF hist.family = "bash"
       THEN /\ bashHistory' = AppendTo(bashHistory, data)
            /\ zshHistory' = zshHistory
       ELSE /\ zshHistory' = AppendTo(zshHistory, data)
            /\ bashHistory' = bashHistory
    /\ written' = [written EXCEPT ![hist.family] =
                        Append(@, [data |-> data, command |-> hist.command,
                                   time |-> hist.time, ok |-> ok])]
    /\ hist' = [hist EXCEPT !.writeErr = ~ok]
    /\ pc' = "Close"
    /\ UNCHANGED <<tasks, shell, calls, runErr, handles, ret>>
    /\ UNCHANGED <<Session, peer>>

\* the deferred file.Close(), whose error is dropped, and the return of
\* appendToHistoryFile to its caller (lines 195-200, 174, 182-186)
Close(ok) ==
    /\ pc = "Close"
    /\ Call("Close", hist.family, ok)
    /\ handles' = HandlesAfterClose(handles, hist.writeErr)
    /\ pc' = AfterAppend(hist.family, hist.writeErr).pc
    /\ ret' = AfterAppend(hist.family, hist.writeErr).ret
    /\ UNCHANGED <<tasks, shell, calls, runErr, hist, bashHistory, zshHistory,
                   written>>
    /\ UNCHANGED <<Session, peer>>

\* callRefreshScript: exec.Command(scriptPath).Run() (lines 203-212)
CallRefreshScript(ok) ==
    /\ pc = "callRefreshScript"
    /\ Call("callRefreshScript", <<>>, ok)
    /\ Return(RefreshReturn(ok))
    /\ UNCHANGED <<tasks, shell, calls, runErr, hist, handles, bashHistory,
                   zshHistory, written>>
    /\ UNCHANGED <<Session, peer>>

Next ==
    \/ \E key \in Keys : KeyMsg(key)
    \/ \E w \in Widths : WindowSizeMsg(w)
    \/ \E term \in FilterTexts : \E matches \in FilterResults(list, term) :
            FilterMatchesMsg(term, matches)
    \/ QuitMsg
    \/ SessionError
    \/ \E ok \in BOOLEAN : NewRunner(ok)
    \/ \E ok \in BOOLEAN : RunnerRun(ok)
    \/ Println
    \/ \E userOk \in BOOLEAN : \E now \in Times : AddToShellHistory(userOk, now)
    \/ \E ok \in BOOLEAN : OpenFile(ok)
    \/ \E ok \in BOOLEAN : \E data \in Fragments(hist.line) \cup {hist.line} :
            WriteString(ok, data)
    \/ \E ok \in BOOLEAN : Close(ok)
    \/ \E ok \in BOOLEAN : CallRefreshScript(ok)

\* one run of interactivePicker
Spec == Init /\ [][Next]_vars

(***************************************************************************)
(* The synchronizer on its own: addToShellHistory called again and again   *)
(* (by successive runs of xc) against the same two history files.          *)
(***************************************************************************)
SyncStart ==
    /\ tasks \in TaskLists /\ tasks # <<>>
    /\ shell \in Shells
    /\ calls = 0
    /\ list = NewList(tasks)
    /\ quitting = FALSE
    /\ quitMsg = FALSE
    /\ filterMsgs = [t \in FilterTexts |-> 0]
    /\ runErr = FALSE
    /\ hist = NoHist
    /\ handles = 0
    /\ \E h \in InitialHistory : bashHistory = h.bash /\ zshHistory = h.zsh
    /\ ret = "none"
    /\ log = <<>>
    /\ obs = NoObs
    /\ written = [init |-> [bash |-> bashHistory, zsh |-> zshHistory],
                  bash |-> <<>>, zsh |-> <<>>]

InitSync == SyncStart /\ pc = "done" /\ choice = Nil /\ peer = NoPeer

\* a run of xc in which the task named name was chosen and ran without error
\* reaches line 146
Synchronize(name) ==
    /\ pc = "done"
    /\ calls < MaxCalls
    /\ choice' = name
    /\ pc' = "addToShellHistory"
    /\ ret' = "none"
    /\ log' = <<>>
    /\ hist' = NoHist
    /\ UNCHANGED <<tasks, shell, calls, list, quitting, quitMsg, filterMsgs, runErr,
                   handles, bashHistory, zshHistory, obs, written, peer>>

NextSync ==
    \/ \E i \in 1..Len(tasks) : Synchronize(tasks[i])
    \/ \E userOk \in BOOLEAN : \E now \in Times : AddToShellHistory(userOk, now)
    \/ \E ok \in BOOLEAN : OpenFile(ok)
    \/ \E ok \in BOOLEAN : \E data \in Fragments(hist.line) \cup {hist.line} :
            WriteString(ok, data)
    \/ \E ok \in BOOLEAN : Close(ok)
    \/ \E ok \in BOOLEAN : CallRefreshScript(ok)

SpecSync == InitSync /\ [][NextSync]_vars

(***************************************************************************)
(* Two processes: this one has run its task and calls addToShellHistory    *)
(* (line 146) while another xc process of the same user, with the same     *)
(* SHELL, is inside appendToHistoryFile (lines 190-201) for the same       *)
(* history file.  Nothing in the code coordinates the two: each step of    *)
(* either can come between any two steps of the other.                     *)
(***************************************************************************)
\* the other process is about to open the file, with the line of its own task
\* and clock
PeerStart(name, now) ==
    [pc |-> "OpenFile", command |-> HistoryCommand(name), time |-> now,
     line |-> IF ShellFamily(shell) = "bash" THEN BashLine(HistoryCommand(name))
              ELSE ZshLine(now, HistoryCommand(name)),
     handles |-> 0, writeErr |-> FALSE, ret |-> "none", overlap |-> FALSE]

InitRace ==
    /\ SyncStart
    /\ ShellFamily(shell) # "none"
    /\ pc = "addToShellHistory"
    /\ \E i \in 1..Len(tasks) : choice = tasks[i]
    /\ \E i \in 1..Len(tasks) : \E now \in Times : peer = PeerStart(tasks[i], now)

\* the other process: os.OpenFile (lines 191-194)
PeerOpenFile(ok) ==
    /\ peer.pc = "OpenFile"
    /\ peer' = IF ok THEN [peer EXCEPT !.pc = "WriteString", !.handles = @ + 1]
               ELSE [peer EXCEPT !.pc = "done", !.ret = "open error"]
    /\ UNCHANGED <<tasks, shell, calls, pc, runErr, hist, handles, bashHistory,
                   zshHistory, ret, log, written>>
    /\ UNCHANGED Session

\* the other process: file.WriteString(command) (line 197); overlap records
\* that this process had the same file open, its own write still to come
PeerWriteString(ok, data) ==
    /\ peer.pc = "WriteString"
    /\ IF ok THEN data = peer.line ELSE data \in Fragments(peer.line)
    /\ IF ShellFamily(shell) = "bash"
       THEN /\ bashHistory' = AppendTo(bashHistory, data)
            /\ zshHistory' = zshHistory
       ELSE /\ zshHistory' = AppendTo(zshHistory, data)
            /\ bashHistory' = bashHistory
    /\ written' = [written EXCEPT ![ShellFamily(shell)] =
                        Append(@, [data |-> data, command |-> peer.command,
                                   time |-> peer.time, ok |-> ok])]
    /\ peer' = [peer EXCEPT !.pc = "Close", !.writeErr = ~ok,
                            !.overlap = (pc = "WriteString")]
    /\ UNCHANGED <<tasks, shell, calls, pc, runErr, hist, handles, ret, log>>
    /\ UNCHANGED Session

\* the other process: the deferred file.Close() and the return (lines 195-200)
PeerClose(ok) ==
    /\ peer.pc = "Close"
    /\ peer' = [peer EXCEPT !.pc = "done",
                            !.handles = HandlesAfterClose(@, peer.writeErr),
                            !.ret = IF peer.writeErr THEN "write error" ELSE "nil"]
    /\ UNCHANGED <<tasks, shell, calls, pc, runErr, hist, handles, bashHistory,
                   zshHistory, ret, log, written>>
    /\ UNCHANGED Session

NextRace ==
    \/ \E userOk \in BOOLEAN : \E now \in Times : AddToShellHistory(userOk, now)
    \/ \E ok \in BOOLEAN : OpenFile(ok)
    \/ \E ok \in BOOLEAN : \E data \in Fragments(hist.line) \cup {hist.line} :
            WriteString(ok, data)
    \/ \E ok \in BOOLEAN : Close(ok)
    \/ \E ok \in BOOLEAN : CallRefreshScript(ok)
    \/ \E ok \in BOOLEAN : PeerOpenFile(ok)
    \/ \E ok \in BOOLEAN : \E data \in Fragments(peer.line) \cup {peer.line} :
            PeerWriteString(ok, data)
    \/ \E ok \in BOOLEAN : PeerClose(ok)

SpecRace == InitRace /\ [][NextRace]_vars

(***************************************************************************)
(* Properties.                                                             *)
(***************************************************************************)
\* the positions of the calls of op in the log
Calls(op) == {i \in 1..Len(log) : log[i][1] = op}

\* C1: once quitting is true, every later event of the session leaves choice
\* and quitting as they are; no second outcome is ever set.
C1_InertAfterTermination ==
    [][(pc = "session" /\ quitting) => (choice' = choice /\ quitting' = quitting)]_vars

\* C2: for a non-empty task list, when the first terminating key is a cancel
\* key, no task is chosen, interactivePicker returns nil (a failure of the
\* terminal itself aside), and neither the runner nor addToShellHistory is
\* ever called.
C2_CancelRunsNothing ==
    (tasks # <<>> /\ obs.first = "cancel") =>
        /\ choice = Nil
        /\ log = <<>>
        /\ pc \in {"session", "done"}
        /\ pc = "done" => ret \in {"nil", "session error"}

\* C3: when the first terminating key is an enter pressed over a non-empty
\* visible subset, the choice is the task at the highlighted index of that
\* subset, it is one of the tasks handed to interactivePicker, and it is the
\* task whose name Runner.Run receives.
C3_CommitIsHighlighted ==
    (obs.first = "enter" /\ obs.commit # Nil) =>
        /\ choice = obs.commit
        /\ \E i \in 1..Len(tasks) : tasks[i] = choice
        /\ \A i \in Calls("Run") : log[i][2] = obs.commit

\* an enter is handled while nothing is visible
EnterOnEmpty == KeyMsg("enter") /\ VisibleItems(list) = <<>>

\* C4 as claimed: enter over an empty visible subset changes nothing and the
\* session goes on.
C4_EnterOnEmptyIsNoOp ==
    [][EnterOnEmpty => UNCHANGED <<list, choice, quitting, quitMsg, pc>>]_vars

\* C4 as amended: enter over an empty visible subset sets no task and leaves
\* the list (filter text, visible subset, highlighted index) as it is, but it
\* does end the session: quitting is set and the quit command is issued.
C4_EnterOnEmptyQuits ==
    [][EnterOnEmpty =>
        /\ choice' = choice
        /\ list' = list
        /\ quitting' /\ quitMsg' /\ pc' = "session"]_vars

\* an enter, the first terminating key and the last event so far, was handled
\* while a filter that matches no task left nothing visible
C4_Witness ==
    /\ pc = "session" /\ obs.first = "enter" /\ ~obs.late
    /\ tasks # <<>> /\ list.filterState = "Filtering" /\ VisibleItems(list) = <<>>
    /\ quitting /\ quitMsg /\ choice = Nil

HistoryOps == {"addToShellHistory", "user.Current", "OpenFile", "WriteString",
               "Close", "callRefreshScript"}

\* Runner.Run was called for the chosen task and returned no error
RunSucceeded(i) ==
    \E j \in 1..(i - 1) : log[j] = <<"Run", choice, TRUE>>

\* C5: every step of history synchronization (the call, the open, the write,
\* the refresh) comes after a Runner.Run of the chosen task that returned no
\* error, the call's argument is "xc " followed by the chosen task's name, and
\* without such a step both history files are as they were.
C5_HistoryOnlyAfterSuccessfulRun ==
    /\ \A i \in 1..Len(log) : log[i][1] \in HistoryOps =>
            /\ choice # Nil
            /\ RunSucceeded(i)
            /\ \A j \in Calls("Run") \cup Calls("NewRunner") : j < i /\ log[j][3]
            /\ log[i][1] = "addToShellHistory" => log[i][2] = <<"x", "c", " ">> \o choice
    /\ Calls("WriteString") = {} =>
            bashHistory = written.init.bash /\ zshHistory = written.init.zsh
    /\ (ret \in {"session error", "parse error", "run error"} \/ choice = Nil) =>
            \A i \in 1..Len(log) : log[i][1] \notin HistoryOps

\* a run in which the task ran, its history line was written and the picker
\* returned nil
C5_Witness ==
    /\ pc = "done" /\ ret = "nil"
    /\ Calls("Run") # {} /\ Calls("WriteString") # {}

\* the history lines as the shells read them
ExpectedBashLine(c) == c \o <<"\n">>
ExpectedZshLine(t, c) ==
    <<":", " ">> \o Digits(t) \o <<":", "0", ";">> \o c \o <<"\n">>

\* a call of addToShellHistory has returned nil
SyncReturnedNil == pc = "done" /\ ret = "nil" /\ Calls("addToShellHistory") # {}

\* the zsh line was appended to ~/.zsh_history, and nothing to ~/.bash_history
ZshLineAppended ==
    /\ zshHistory = hist.before.zsh \o ExpectedZshLine(hist.time, hist.command)
    /\ bashHistory = hist.before.bash

\* C6 as claimed: whenever SHELL contains "zsh", a call in which all I/O
\* succeeds appends ": T:0;c\n" to ~/.zsh_history and nothing to
\* ~/.bash_history, and runs the refresh step once.
C6_ZshAppendsTimestampedLine ==
    (Contains(shell, zsh) /\ SyncReturnedNil) =>
        /\ ZshLineAppended
        /\ Cardinality(Calls("callRefreshScript")) = 1

\* C6 as amended: whenever SHELL contains "zsh" and does not contain "bash",
\* a call in which all I/O succeeds appends ": T:0;c\n" to ~/.zsh_history and
\* nothing to ~/.bash_history, and runs the refresh step once.
C6_ZshOnlyAppendsTimestampedLine ==
    (Contains(shell, zsh) /\ ~Contains(shell, bash) /\ SyncReturnedNil) =>
        /\ ZshLineAppended
        /\ hist.time \in Times
        /\ Cardinality(Calls("callRefreshScript")) = 1
        /\ Cardinality(Calls("WriteString")) = 1

\* a call under a zsh SHELL in which everything succeeded, at a two-digit time
C6_Witness ==
    /\ Contains(shell, zsh) /\ ~Contains(shell, bash) /\ SyncReturnedNil
    /\ hist.time >= 10 /\ zshHistory # hist.before.zsh

\* C7: whenever SHELL contains "bash", the refresh step is never run and
\* ~/.zsh_history is never touched, and a call in which all I/O succeeds
\* appends exactly "c\n" to ~/.bash_history.
C7_BashAppendsPlainLine ==
    Contains(shell, bash) =>
        /\ Calls("callRefreshScript") = {}
        /\ zshHistory = written.init.zsh
        /\ SyncReturnedNil =>
            /\ bashHistory = hist.before.bash \o ExpectedBashLine(hist.command)
            /\ Cardinality(Calls("WriteString")) = 1

\* a call under a SHELL that names bash and zsh both, in which everything
\* succeeded
C7_Witness ==
    /\ Contains(shell, bash) /\ Contains(shell, zsh) /\ SyncReturnedNil
    /\ bashHistory # hist.before.bash

NeitherShell == ~Contains(shell, bash) /\ ~Contains(shell, zsh)

\* no history file was opened or written and the refresh step was not run
NothingSynchronized ==
    /\ Calls("OpenFile") = {} /\ Calls("WriteString") = {}
    /\ Calls("callRefreshScript") = {}
    /\ bashHistory = written.init.bash /\ zshHistory = written.init.zsh

\* C8 as claimed: when SHELL names neither shell, addToShellHistory writes
\* nothing, runs no refresh step and returns no error, whether or not the
\* current user can be resolved.
C8_UnknownShellNeverFails ==
    (NeitherShell /\ Calls("addToShellHistory") # {}) =>
        /\ NothingSynchronized
        /\ pc = "done" /\ ret = "nil"

\* C8 as amended: when SHELL names neither shell, addToShellHistory writes
\* nothing and runs no refresh step; it returns no error when the current
\* user is resolved, and the lookup's error when it is not.
C8_UnknownShellNoWrite ==
    (NeitherShell /\ Calls("addToShellHistory") # {}) =>
        /\ NothingSynchronized
        /\ pc = "done"
        /\ \A i \in Calls("user.Current") :
                ret = IF log[i][3] THEN "nil" ELSE "user error"

\* a call under fish, with the user resolved, has returned nil
C8_Witness ==
    /\ shell = <<"/", "f", "i", "s", "h">> /\ SyncReturnedNil
    /\ \A i \in Calls("user.Current") : log[i][3]

\* C9: in the zsh branch, when the write succeeded and the refresh step
\* failed, addToShellHistory returns the error and ~/.zsh_history is what it
\* was before the call followed by exactly the new line.
C9_RefreshFailureKeepsLine ==
    (\E i \in Calls("callRefreshScript") : ~log[i][3]) =>
        /\ pc = "done" /\ ret = "refresh error"
        /\ hist.family = "zsh"
        /\ ZshLineAppended
        /\ Cardinality(Calls("WriteString")) = 1

\* the refresh step has failed after a write to a history file that was not
\* empty
C9_Witness ==
    /\ \E i \in Calls("callRefreshScript") : ~log[i][3]
    /\ hist.before.zsh # <<>> /\ pc = "done"

\* the line a successful write of this call should have added
ExpectedLine(family, w) ==
    IF family = "bash" THEN ExpectedBashLine(w.command)
    ELSE ExpectedZshLine(w.time, w.command)

\* what the writes recorded for a history file added to it, in call order
Added(family) == Concat([i \in 1..Len(written[family]) |-> written[family][i].data])

\* C10: each history file is its first content followed by what every write
\* added, in call order, and every successful call added its own whole line,
\* also when the same command was synchronized before.
C10_AppendOnly ==
    /\ bashHistory = written.init.bash \o Added("bash")
    /\ zshHistory = written.init.zsh \o Added("zsh")
    /\ \A f \in {"bash", "zsh"} : \A i \in 1..Len(written[f]) :
            written[f][i].ok => written[f][i].data = ExpectedLine(f, written[f][i])

\* the same command was synchronized twice to the same file, both times with
\* success
C10_Witness ==
    \E f \in {"bash", "zsh"} :
        /\ Len(written[f]) = 2
        /\ written[f][1].ok /\ written[f][2].ok
        /\ written[f][1].data = written[f][2].data
        /\ pc = "done"

\* the steps of this run that failed
Failed == {i \in 1..Len(log) : ~log[i][3]}

\* C11: when interactivePicker has returned, it returned an error if any step
\* it attempted failed (runner construction, Run, the user lookup, the open,
\* the write or the release of the history file, the refresh step), and it
\* returned nil only when no task was run or every attempted step succeeded.
C11_EveryFailureSurfaced ==
    pc = "done" =>
        /\ Failed # {} => ret # "nil"
        /\ ret = "nil" => Calls("Run") = {} \/ Failed = {}

\* C12: in every state of the session, model.Update on a WindowSizeMsg changes
\* the width of the list and nothing else: choice, quitting, the items, the
\* filter text and state, the visible items and the highlighted index are the
\* same, tea.Quit is not returned and no other command is.
C12_ResizeChangesWidthOnly ==
    \A w \in Widths :
        LET r == UpdateWindowSize(Model, w)
        IN  /\ r.m.choice = choice
            /\ r.m.quitting = quitting
            /\ r.m.list = [list EXCEPT !.width = w]
            /\ r.m.list.items = list.items
            /\ r.m.list.filterValue = list.filterValue
            /\ r.m.list.filterState = list.filterState
            /\ VisibleItems(r.m.list) = VisibleItems(list)
            /\ r.m.list.cursor = list.cursor
            /\ ~r.quit
            /\ r.cmd = NoCmd

\* a resize arrived while a filter was in use and an item other than the first
\* was highlighted
C12_Witness ==
    /\ pc = "session"
    /\ list.width # listItemWidth
    /\ list.filterState # "Unfiltered"
    /\ list.cursor > 0
    /\ ~quitting

\* C13: when user.Current() fails, it is the first step of addToShellHistory
\* and the last: the call returns the lookup's error, no history file is
\* opened or written, no handle is held and the refresh step is not called,
\* whatever SHELL is.
C13_LookupFailureStopsFirst ==
    \A i \in Calls("user.Current") :
        ~log[i][3] =>
            /\ i > 1 /\ log[i - 1][1] = "addToShellHistory"
            /\ i = Len(log)
            /\ pc = "done" /\ ret = "user error"
            /\ bashHistory = hist.before.bash
            /\ zshHistory = hist.before.zsh
            /\ handles = 0

\* the lookup failed in a second call, with a SHELL that names zsh, after a
\* first call that wrote its line
C13_Witness ==
    /\ \E i \in Calls("user.Current") : ~log[i][3]
    /\ Contains(shell, zsh)
    /\ calls = 2
    /\ Len(written.zsh) + Len(written.bash) = 1
    /\ pc = "done"

\* the steps whose error interactivePicker returns, and the error of each
Steps == {"NewRunner", "Run", "user.Current", "OpenFile", "WriteString",
          "callRefreshScript"}

ErrorOf(op) ==
    CASE op = "NewRunner" -> "parse error"
      [] op = "Run" -> "run error"
      [] op = "user.Current" -> "user error"
      [] op = "OpenFile" -> "open error"
      [] op = "WriteString" -> "write error"
      [] op = "callRefreshScript" -> "refresh error"

\* C14: in one run of interactivePicker no step is attempted twice (the
\* runner's construction, Run, the print, the user lookup, the open, the write
\* and the release of the history file, the refresh step), and after a step
\* that failed nothing is attempted any more, except the print that follows
\* Run and the release that follows the write: the run ends with the error of
\* that step.
C14_NoRetry ==
    /\ \A op \in Steps \cup {"Println", "addToShellHistory", "Close"} :
            Cardinality(Calls(op)) <= 1
    /\ \A i \in Failed :
            log[i][1] \in Steps =>
                /\ \A j \in (i + 1)..Len(log) : log[j][1] \in {"Println", "Close"}
                /\ pc = "done" => ret = ErrorOf(log[i][1])

\* the write failed after a successful open: the file was released and the run
\* ended with the write's error
C14_Witness ==
    /\ pc = "done" /\ ret = "write error"
    /\ \E i \in Calls("WriteString") : ~log[i][3] /\ i < Len(log)
    /\ \E i \in Calls("Run") : log[i][3]

\* C15: the process holds a handle on a history file only between a successful
\* open and the release that ends appendToHistoryFile, and then exactly one:
\* none after a failed open, none once the append has returned, whether the
\* write succeeded or failed, and none left over from earlier calls.
C15_HandleReleased ==
    /\ handles = IF pc \in {"WriteString", "Close"} THEN 1 ELSE 0
    /\ \A i \in Calls("OpenFile") :
            ~log[i][3] => handles = 0 /\ Calls("Close") = {}
    /\ \A i \in Calls("OpenFile") :
            log[i][3] /\ pc \notin {"WriteString", "Close"} =>
                Cardinality(Calls("Close")) = 1

\* a second call's write failed and its file was released, after a first call
\* that opened and released a file too
C15_Witness ==
    /\ calls = 2
    /\ pc = "done" /\ ret = "write error"
    /\ Calls("Close") # {}
    /\ Len(written.bash) + Len(written.zsh) = 2
    /\ handles = 0

\* the lines the two processes set out to append
OwnLine == ExpectedLine(hist.family, [command |-> hist.command, time |-> hist.time])

PeerLine == ExpectedLine(hist.family, [command |-> peer.command, time |-> peer.time])

\* this process made one call, the other process one append, both writes
\* succeeded and both have returned
BothAppended ==
    /\ calls = 1 /\ pc = "done" /\ ret \in {"nil", "refresh error"}
    /\ Calls("WriteString") # {}
    /\ peer.pc = "done" /\ peer.ret = "nil"

\* C16: when two processes have each appended to the same history file with
\* one successful write, however their open, write and close steps were
\* interleaved, the file is its first content followed by the two whole lines,
\* in one order or the other, two writes were made in all, and the other
\* history file is as it was.
C16_BothLinesComplete ==
    BothAppended =>
        LET f == hist.family
            other == IF f = "bash" THEN "zsh" ELSE "bash"
            file == [bash |-> bashHistory, zsh |-> zshHistory]
        IN  /\ file[f] \in {written.init[f] \o OwnLine \o PeerLine,
                            written.init[f] \o PeerLine \o OwnLine}
            /\ Len(written[f]) = 2
            /\ file[other] = written.init[other]
            /\ handles = 0 /\ peer.handles = 0

\* the other process wrote a different line while this one had the file open
\* with its write still to come, and the file was not empty at the start
C16_Witness ==
    /\ BothAppended
    /\ peer.overlap
    /\ OwnLine # PeerLine
    /\ written.init[hist.family] # <<>>

\* this step hands the filter result computed for term to the list
Delivered(term) ==
    /\ pc = "session" /\ pc' = "session"
    /\ filterMsgs[term] > 0
    /\ filterMsgs' = [filterMsgs EXCEPT ![term] = @ - 1]

\* the items whose name contains the text as a substring, in the original order
SubstringMatches(items, text) == SelectSeq(items, LAMBDA name : Contains(name, text))

\* the characters of text occur in name in order, not necessarily side by side,
\* letter case aside
Embeds(text, name) ==
    \E f \in [1..Len(text) -> 1..Len(name)] :
        /\ \A i \in 1..Len(text) : Fold(name[f[i]]) = Fold(text[i])
        /\ \A i, j \in 1..Len(text) : i < j => f[i] < f[j]

C18_BashFirstExclusive ==
    /\ Calls("user.Current") # {} =>
            /\ bashHistory = hist.before.bash \/ zshHistory = hist.before.zsh
            /\ (hist.family = "bash") => zshHistory = hist.before.zsh
            /\ (hist.family = "zsh") => bashHistory = hist.before.bash
    /\ \A i \in Calls("OpenFile") : log[i][2] = hist.family
    /\ \A i \in Calls("Close") : log[i][2] = hist.family
    /\ (hist.family # "zsh") => Calls("callRefreshScript") = {}
    /\ (Contains(shell, bash) /\ Contains(shell, zsh)) =>
            /\ hist.family \in {"bash", "none"}
            /\ \A i \in Calls("OpenFile") : log[i][2] = "bash"
            /\ \A i \in Calls("WriteString") :
                    log[i][2] = ExpectedBashLine(hist.command)
            /\ zshHistory = written.init.zsh
            /\ Calls("callRefreshScript") = {}
            /\ SyncReturnedNil =>
                    bashHistory = hist.before.bash \o ExpectedBashLine(hist.command)

\* SHELL names zsh before bash, and a second call wrote its plain line to
\* ~/.bash_history after a first one did
C18_Witness ==
    /\ shell = <<"/">> \o zsh \o <<"/">> \o bash
    /\ calls = 2 /\ SyncReturnedNil
    /\ Len(written.bash) = 2 /\ written.bash[1].ok
    /\ bashHistory # hist.before.bash

\* C19: in a call that takes the zsh branch, callRefreshScript is called when
\* the open and the write both succeeded and only then, after the write and
\* after the handle was released; when the open or the write fails it is not
\* called and the call returns that error.
C19_RefreshOnlyAfterAppend ==
    /\ \A i \in Calls("callRefreshScript") :
            /\ hist.family = "zsh"
            /\ \E o \in Calls("OpenFile") : \E w \in Calls("WriteString") :
               \E c \in Calls("Close") :
                    /\ log[o][3] /\ log[w][3]
                    /\ o < w /\ w < c /\ c < i
            /\ handles = 0
    /\ pc = "callRefreshScript" => handles = 0 /\ ~hist.writeErr
    /\ (hist.family = "zsh" /\ pc = "done" /\ Calls("user.Current") # {}) =>
            /\ Calls("callRefreshScript") # {} <=>
                    /\ \E o \in Calls("OpenFile") : log[o][3]
                    /\ \E w \in Calls("WriteString") : log[w][3]
            /\ (\E o \in Calls("OpenFile") : ~log[o][3]) => ret = "open error"
            /\ (\E w \in Calls("WriteString") : ~log[w][3]) => ret = "write error"

\* a zsh call whose write failed after a first call that ran the refresh step:
\* the second call returned the write's error without a refresh
C19_Witness ==
    /\ hist.family = "zsh" /\ calls = 2
    /\ pc = "done" /\ ret = "write error"
    /\ Calls("callRefreshScript") = {}
    /\ Len(written.zsh) = 2 /\ written.zsh[1].ok /\ ~written.zsh[2].ok

\* C20: the line "Task name: " + name is printed once in every run in which
\* Run was called, straight after Run returned, for a Run that succeeded and
\* for one that failed, with the name Run was given, and before any step of
\* history synchronization; it is not printed in a run without a call of Run:
\* a session that ended cancelled, that is without a chosen task (lines
\* 133-136), a failed session, a failed runner construction.
C20_TaskNamePrintedOnceAfterRun ==
    /\ Cardinality(Calls("Println")) <= 1
    /\ \A i \in Calls("Println") :
            /\ i > 1 /\ log[i - 1][1] = "Run"
            /\ log[i][2] = TaskNameLine(log[i - 1][2])
            /\ \A j \in 1..Len(log) : log[j][1] \in HistoryOps => i < j
    /\ \A i \in Calls("Run") :
            pc # "Println" => i < Len(log) /\ log[i + 1][1] = "Println"
    /\ Calls("Run") = {} => Calls("Println") = {}
    /\ (pc = "done" /\ ret \in {"session error", "parse error"}) =>
            Calls("Println") = {}
    /\ (pc = "done" /\ choice = Nil) => Calls("Println") = {}

\* Run failed: the line was printed all the same and the run ended with Run's
\* error
C20_Witness ==
    /\ pc = "done" /\ ret = "run error"
    /\ \E i \in Calls("Run") : ~log[i][3]
    /\ Calls("Println") # {}

====
